---- MODULE Spec2Model ----
(***************************************************************************)
(* Content negotiation and response dispatch of geddy's Responder          *)
(* (lib/controller/responder/index.js).                                    *)
(*                                                                         *)
(* Strings that the code only compares are TLA+ strings.  The Accept       *)
(* header is a sequence of tokens (a media type, ",", " ", ";" or a        *)
(* parameter), so that splitting and parameter stripping are computed.     *)
(* JavaScript's falsy values undefined / null / '' of a string-valued      *)
(* field are the empty string (for a format or content type) or the empty  *)
(* sequence (for the Accept header).                                       *)
(***************************************************************************)
EXTENDS Naturals, Integers, Sequences, FiniteSets, TLC

VARIABLES
    accept,         \* controller.request.headers.accept (token sequence)
    params_format,  \* controller.params.format
    formats,        \* controller.respondsWith
    completed,      \* controller.completed
    neg,            \* what the latest negotiate call did and returned
    call,           \* the latest entry call and its arguments
    events,         \* calls made by the latest entry call, in order
    thrown,         \* the exception the latest entry call ended with
    pending,        \* formatContent calls whose formatCb has not run yet
    delivered,      \* formatContent calls whose formatCb has run
    writes          \* controller._doResponse calls

vars == <<accept, params_format, formats, completed, neg, call, events,
          thrown, pending, delivered, writes>>

context == <<accept, params_format, formats>>
dispatchVars == <<call, events, thrown, pending, delivered, writes>>

----------------------------------------------------------------------------
(* Bounds of the negotiation inputs *)

MaxEntries == 2
MaxFormats == 2

----------------------------------------------------------------------------
(* Values *)

NoFormat == ""
NoContentType == ""
Undefined == "undefined"
Null == "null"
Wildcard == "*/*"
DefaultStatus == 200

FormatTokens == {"html", "json", "zzz"}

\* An Accept entry: a media type, with or without a quality factor.
AcceptEntries ==
    { <<"*/*">>, <<"*/*", ";", "q=0.8">>,
      <<"application/json">>, <<"application/json", ";", "q=0.9">>,
      <<"text/json">>, <<"text/html">> }

\* Comma separators as user agents write them.
Separators == { <<",">>, <<" ", ",", " ">> }

RECURSIVE Join(_, _)
Join(entries, sep) ==
    IF Len(entries) = 0 THEN <<>>
    ELSE IF Len(entries) = 1 THEN entries[1]
    ELSE entries[1] \o sep \o Join(Tail(entries), sep)

AcceptHeaders ==
    { <<>> } \cup
    { Join(es, sep) :
        es \in UNION { [1..n -> AcceptEntries] : n \in 1..MaxEntries },
        sep \in Separators }

FormatLists == UNION { [1..n -> FormatTokens] : n \in 0..MaxFormats }

\* A strategy map: its keys in insertion order, each a handler function or not.
StrategyMaps ==
    { <<>>,
      << [key |-> "json", callable |-> TRUE] >>,
      << [key |-> "zzz", callable |-> TRUE] >>,
      << [key |-> "json", callable |-> FALSE], [key |-> "txt", callable |-> TRUE] >>,
      << [key |-> "txt", callable |-> FALSE], [key |-> "html", callable |-> TRUE] >> }

----------------------------------------------------------------------------
(* The response module's registry of formats (lib/response) *)

ContentTypesOf(format) ==
    CASE format = "html" -> <<"text/html">>
      [] format = "json" -> <<"application/json", "text/json">>
      [] format = "xml"  -> <<"application/xml", "text/xml">>
      [] format = "js"   -> <<"application/javascript", "text/javascript">>
      [] format = "txt"  -> <<"text/plain">>
      [] OTHER           -> <<>>

InSeq(x, s) == \E i \in 1..Len(s) : s[i] = x

\* response.getContentTypeForFormat: the format's content type, or nothing.
getContentTypeForFormat(format) ==
    IF ContentTypesOf(format) = <<>> THEN NoContentType
    ELSE ContentTypesOf(format)[1]

\* response.matchAcceptHeaderContentType: the media type of the first Accept
\* entry that is a content type of the format, or nothing.
matchAcceptHeaderContentType(accepts, format) ==
    LET hits == { i \in 1..Len(accepts) :
                    /\ Len(accepts[i]) > 0
                    /\ InSeq(accepts[i][1], ContentTypesOf(format)) }
    IN IF hits = {} THEN NoContentType
       ELSE accepts[CHOOSE i \in hits : \A j \in hits : i <= j][1]

----------------------------------------------------------------------------
(* Responder.negotiate *)

\* Array.prototype.indexOf(x) >= 0
Contains(list, x) == InSeq(x, list)

\* for (var key in strategies) if (acceptFormats.indexOf(key) < 0) push(key)
RECURSIVE CopyKeys(_, _, _)
CopyKeys(acceptFormats, strategies, k) ==
    IF k > Len(strategies) THEN acceptFormats
    ELSE CopyKeys(IF Contains(acceptFormats, strategies[k].key)
                  THEN acceptFormats
                  ELSE Append(acceptFormats, strategies[k].key),
                  strategies, k + 1)

\* A slip: the strategy keys go in front of the controller's formats.
MergeFormatsKeysFirst(allowed, strategies) ==
    CopyKeys(<<>>, strategies, 1) \o
    SelectSeq(allowed, LAMBDA f : ~Contains(CopyKeys(<<>>, strategies, 1), f))

MergeFormats(allowed, strategies) == CopyKeys(allowed, strategies, 1)

IsSpace(tok) == tok = " "

RECURSIVE TrimRight(_)
TrimRight(s) ==
    IF Len(s) > 0 /\ IsSpace(s[Len(s)]) THEN TrimRight(SubSeq(s, 1, Len(s) - 1))
    ELSE s

RECURSIVE SkipSpaces(_, _)
SkipSpaces(s, i) ==
    IF i <= Len(s) /\ IsSpace(s[i]) THEN SkipSpaces(s, i + 1) ELSE i

\* String.prototype.split(/\s*,\s*/): a comma takes the white space on both sides.
RECURSIVE SplitFrom(_, _, _, _)
SplitFrom(s, i, cur, out) ==
    IF i > Len(s) THEN Append(out, cur)
    ELSE IF s[i] = ","
         THEN SplitFrom(s, SkipSpaces(s, i + 1), <<>>, Append(out, TrimRight(cur)))
         ELSE SplitFrom(s, i + 1, Append(cur, s[i]), out)

SplitOnComma(s) == SplitFrom(s, 1, <<>>, <<>>)

\* if (accepts) accepts = accepts.split(/\s*,\s*/) else accepts = ['*/*']
ParseAccept(raw) ==
    IF raw # <<>> THEN SplitOnComma(raw) ELSE << <<Wildcard>> >>

\* accepts[i].split(';')[0]
RECURSIVE UpToSemicolon(_, _)
UpToSemicolon(entry, i) ==
    IF i > Len(entry) \/ entry[i] = ";" THEN SubSeq(entry, 1, i - 1)
    ELSE UpToSemicolon(entry, i + 1)

StripParams(entry) == UpToSemicolon(entry, 1)

\* A slip: an unknown params.format falls back to every format.
CandidateTypesFallBack(frmt, acceptFormats) ==
    IF frmt # NoFormat THEN <<frmt>>
    ELSE IF params_format # NoFormat /\ Contains(acceptFormats, params_format)
         THEN <<params_format>>
         ELSE acceptFormats

\* The candidate formats, by the hints.
CandidateTypes(frmt, acceptFormats) ==
    IF frmt # NoFormat THEN <<frmt>>
    ELSE IF params_format # NoFormat
         THEN IF Contains(acceptFormats, params_format)
              THEN <<params_format>>
              ELSE <<>>
         ELSE acceptFormats

\* The scan for a wildcard entry, stopping at the first.
RECURSIVE WildcardFrom(_, _)
WildcardFrom(accepts, i) ==
    IF i > Len(accepts) THEN FALSE
    ELSE IF StripParams(accepts[i]) = <<Wildcard>> THEN TRUE
         ELSE WildcardFrom(accepts, i + 1)

\* A slip: only the first entry is looked at.
HasWildcardFirstOnly(accepts) ==
    Len(accepts) > 0 /\ StripParams(accepts[1]) = <<Wildcard>>

HasWildcard(accepts) == WildcardFrom(accepts, 1)

Outcome(o, f, ct, mc, rc) ==
    [outcome |-> o, format |-> f, contentType |-> ct,
     matcherCalls |-> mc, resolverCalls |-> rc]

\* The agent accepts anything: the controller's first choice.
WildcardChoice(types) ==
    LET t == types[1]
        contentType == getContentTypeForFormat(t)
    IN IF contentType = NoContentType
       THEN Outcome("error", NoFormat, NoContentType, <<>>, <<t>>)
       ELSE Outcome("ok", t, contentType, <<>>, <<t>>)

\* The loop over the candidates: a match returns, no match throws.
RECURSIVE MatchFrom(_, _, _, _)
MatchFrom(accepts, types, i, calls) ==
    IF i > Len(types)
    THEN Outcome("ok", Undefined, Undefined, calls, <<>>)
    ELSE LET match == matchAcceptHeaderContentType(accepts, types[i])
             made == Append(calls, [accepts |-> accepts, format |-> types[i]])
         IN IF match # NoContentType
            THEN Outcome("ok", types[i], match, made, <<>>)
            ELSE Outcome("error", NoFormat, NoContentType, made, <<>>)

\* A slip: an unmatched candidate is skipped and the next one tried.
RECURSIVE MatchSkipFrom(_, _, _, _)
MatchSkipFrom(accepts, types, i, calls) ==
    IF i > Len(types)
    THEN Outcome("error", NoFormat, NoContentType, calls, <<>>)
    ELSE LET match == matchAcceptHeaderContentType(accepts, types[i])
             made == Append(calls, [accepts |-> accepts, format |-> types[i]])
         IN IF match # NoContentType
            THEN Outcome("ok", types[i], match, made, <<>>)
            ELSE MatchSkipFrom(accepts, types, i + 1, made)

MatchLoopSkipping(accepts, types) == MatchSkipFrom(accepts, types, 1, <<>>)

MatchLoop(accepts, types) == MatchFrom(accepts, types, 1, <<>>)

negotiate(frmt, strategies) ==
    LET acceptFormats == MergeFormats(formats, strategies)
        accepts == ParseAccept(accept)
        types == CandidateTypes(frmt, acceptFormats)
        wildcard == types # <<>> /\ HasWildcard(accepts)
        r == IF types # <<>>
             THEN IF wildcard THEN WildcardChoice(types)
                  ELSE MatchLoop(accepts, types)
             ELSE Outcome("error", NoFormat, NoContentType, <<>>, <<>>)
    IN [frmt |-> frmt, strategies |-> strategies,
        acceptFormats |-> acceptFormats, accepts |-> accepts,
        types |-> types, wildcard |-> wildcard,
        outcome |-> r.outcome, format |-> r.format,
        contentType |-> r.contentType,
        matcherCalls |-> r.matcherCalls, resolverCalls |-> r.resolverCalls]

NotNegotiated ==
    [frmt |-> NoFormat, strategies |-> <<>>, acceptFormats |-> <<>>,
     accepts |-> <<>>, types |-> <<>>, wildcard |-> FALSE,
     outcome |-> "none", format |-> NoFormat, contentType |-> NoContentType,
     matcherCalls |-> <<>>, resolverCalls |-> <<>>]

NoCall ==
    [op |-> "none", content |-> <<>>, strategies |-> <<>>, opts |-> <<>>,
     cb |-> Undefined, completed |-> FALSE]

----------------------------------------------------------------------------
(* Values of the dispatch calls *)

\* A content value: an array of model items, or one object (isArray FALSE,
\* the object is items[1]).  A hash of values has no type attribute.
Arr(items) == [isArray |-> TRUE, items |-> items]
Obj(o) == [isArray |-> FALSE, items |-> <<o>>]

Contents ==
    { Obj([type |-> "Widget"]), Obj([name |-> "x"]),
      Arr(<<>>), Arr(<< [type |-> "Zooby"], [type |-> "Widget"] >>),
      Arr(<< [name |-> "x"] >>) }

EmptyObject == [k \in {} |-> Undefined]

\* A slip: the caller's options win over the later object.
MixinFirstWins(a, b) ==
    [k \in DOMAIN a \cup DOMAIN b |-> IF k \in DOMAIN a THEN a[k] ELSE b[k]]

\* utils.mixin({}, a, b): the properties of a, then those of b over them.
Mixin(a, b) ==
    [k \in DOMAIN a \cup DOMAIN b |-> IF k \in DOMAIN b THEN b[k] ELSE a[k]]

Get(o, k) == IF k \in DOMAIN o THEN o[k] ELSE Undefined

Options ==
    { Mixin(Mixin(a, b), c) :
        a \in {EmptyObject, [type |-> "override"]},
        b \in {EmptyObject, [statusCode |-> 404]},
        c \in {EmptyObject, [format |-> "txt", contentType |-> "text/plain"]} }

Callbacks == {"cb1", "cb2"}

\* The default strategies of respondWith: every one a function.
respondWithStrategies ==
    << [key |-> "html", callable |-> TRUE], [key |-> "json", callable |-> TRUE],
       [key |-> "xml", callable |-> TRUE], [key |-> "js", callable |-> TRUE],
       [key |-> "txt", callable |-> TRUE] >>

\* String.prototype.toLowerCase on the type names in use.
toLowerCase(s) ==
    CASE s = "Widget" -> "widget"
      [] s = "Zooby"  -> "zooby"
      [] OTHER        -> s

Event(ev, key, content, opts, cb) ==
    [ev |-> ev, key |-> key, content |-> content, opts |-> opts, cb |-> cb]

Effects(t, es, n) == [thrown |-> t, events |-> es, neg |-> n]

----------------------------------------------------------------------------
(* Responder.respond, respondTo, respondWith *)

\* A slip: the status is always 200.
formatCbAlways200(p, formattedContent) ==
    << [statusCode |-> DefaultStatus,
        headers |-> ("Content-Type" :> Get(p.opts, "contentType")),
        body |-> formattedContent, cb |-> p.cb] >>

\* formatCb of respond: the calls of controller._doResponse it makes.
formatCb(p, formattedContent) ==
    << [statusCode |-> IF "statusCode" \in DOMAIN p.opts /\ p.opts.statusCode # 0
                       THEN p.opts.statusCode ELSE DefaultStatus,
        headers |-> ("Content-Type" :> Get(p.opts, "contentType")),
        body |-> formattedContent, cb |-> p.cb] >>

\* response.formatContent's result for a format and a content.
Formatted(format, content) == [format |-> format, of |-> content]

\* respond: one call of response.formatContent, holding formatCb.
respond(content, options, cb) ==
    << Event("formatContent", Get(options, "format"), content, options, cb) >>

\* typeof strategies[format] === 'function'
IsFunction(strategies, format) ==
    \E i \in 1..Len(strategies) :
        strategies[i].key = format /\ strategies[i].callable

\* A slip: controller.completed is not looked at.
respondToIgnoringCompleted(content, strategies, opts, cb) ==
    LET negotiated == negotiate(NoFormat, strategies)
        entry == Event("respondTo", Undefined, content, opts, cb)
        o == Mixin(opts, [format |-> negotiated.format,
                          contentType |-> negotiated.contentType])
    IN IF negotiated.outcome = "error"
       THEN Effects("UndefinedFormatError",
                    <<entry, Event("negotiate", "error", content, opts, cb)>>,
                    negotiated)
       ELSE Effects("none",
                    <<entry, Event("negotiate", "ok", content, opts, cb),
                      Event("respond", negotiated.format, content, o, cb)>>
                    \o respond(content, o, cb),
                    negotiated)

respondTo(content, strategies, opts, cb) ==
    LET negotiated == negotiate(NoFormat, strategies)
        entry == Event("respondTo", Undefined, content, opts, cb)
        o == Mixin(opts, [format |-> negotiated.format,
                          contentType |-> negotiated.contentType])
    IN IF negotiated.outcome = "error"
       THEN Effects("UndefinedFormatError",
                    <<entry, Event("negotiate", "error", content, opts, cb)>>,
                    negotiated)
       ELSE LET done == <<entry, Event("negotiate", "ok", content, opts, cb)>>
            IN IF completed
               THEN Effects("none", done, negotiated)
               ELSE IF IsFunction(strategies, negotiated.format)
                    THEN Effects("none",
                                 Append(done, Event("strategy", negotiated.format,
                                                    content, o, cb)),
                                 negotiated)
                    ELSE Effects("none",
                                 Append(done, Event("respond", negotiated.format,
                                                    content, o, cb))
                                 \o respond(content, o, cb),
                                 negotiated)

\* content[0].type.toLowerCase() / content.type.toLowerCase(): a TypeError
\* when the object has no type attribute.
HasType(o) == "type" \in DOMAIN o

respondWith(content, opts, cb) ==
    LET typeError == IF content.isArray
                     THEN Len(content.items) > 0 /\ ~HasType(content.items[1])
                     ELSE ~HasType(content.items[1])
        inferred == IF content.isArray /\ Len(content.items) = 0 THEN Null
                    ELSE toLowerCase(content.items[1].type)
        type == IF "type" \in DOMAIN opts /\ opts.type # "" THEN opts.type
                ELSE inferred
    IN IF typeError THEN Effects("TypeError", <<>>, NotNegotiated)
       ELSE respondTo(content, respondWithStrategies,
                      Mixin(opts, [type |-> type]), cb)

IsFormatContent(e) == e.ev = "formatContent"

----------------------------------------------------------------------------
(* Negotiation on its own: one request, one call of negotiate *)

Init ==
    /\ accept \in AcceptHeaders
    /\ params_format \in {NoFormat, "json", "zzz"}
    /\ formats \in FormatLists
    /\ completed = FALSE
    /\ neg = NotNegotiated
    /\ call = NoCall
    /\ events = <<>>
    /\ thrown = "none"
    /\ pending = <<>>
    /\ delivered = <<>>
    /\ writes = <<>>

Negotiate ==
    /\ neg.outcome = "none"
    /\ \E frmt \in {NoFormat, "html", "zzz"}, strategies \in StrategyMaps :
          neg' = negotiate(frmt, strategies)
    /\ thrown' = IF neg'.outcome = "error" THEN "UndefinedFormatError" ELSE "none"
    /\ UNCHANGED <<context, completed, call, events, pending, delivered, writes>>

Next == Negotiate

Spec == Init /\ [][Next]_vars

----------------------------------------------------------------------------
(* Dispatch: the entry call of one request and its response *)

DispatchHeaders ==
    { <<>>, <<"text/html">>, <<"application/json">>,
      <<"application/json", ",", " ", "*/*">>,
      <<"text/json", ";", "q=0.9">> }

DispatchFormats ==
    { <<>>, <<"html", "json">>, <<"json", "html">>, <<"zzz">> }

InitDispatch ==
    /\ accept \in DispatchHeaders
    /\ params_format \in {NoFormat, "json"}
    /\ formats \in DispatchFormats
    /\ completed \in BOOLEAN
    /\ neg = NotNegotiated
    /\ call = NoCall
    /\ events = <<>>
    /\ thrown = "none"
    /\ pending = <<>>
    /\ delivered = <<>>
    /\ writes = <<>>

\* What an entry call leaves behind.  A request makes one entry call.
CallRecord(op, content, strategies, opts, cb) ==
    [op |-> op, content |-> content, strategies |-> strategies,
     opts |-> opts, cb |-> cb, completed |-> completed]

RespondTo ==
    /\ call.op = "none"
    /\ \E content \in Contents, strategies \in StrategyMaps,
          opts \in Options, cb \in Callbacks :
        LET eff == respondTo(content, strategies, opts, cb)
        IN /\ call' = CallRecord("respondTo", content, strategies, opts, cb)
           /\ events' = eff.events
           /\ thrown' = eff.thrown
           /\ neg' = eff.neg
           /\ pending' = SelectSeq(eff.events, IsFormatContent)
    /\ UNCHANGED <<context, completed, delivered, writes>>

RespondWith ==
    /\ call.op = "none"
    /\ \E content \in Contents, opts \in Options, cb \in Callbacks :
        LET eff == respondWith(content, opts, cb)
        IN /\ call' = CallRecord("respondWith", content, respondWithStrategies,
                                 opts, cb)
           /\ events' = eff.events
           /\ thrown' = eff.thrown
           /\ neg' = eff.neg
           /\ pending' = SelectSeq(eff.events, IsFormatContent)
    /\ UNCHANGED <<context, completed, delivered, writes>>

Respond ==
    /\ call.op = "none"
    /\ \E content \in Contents, opts \in Options, cb \in Callbacks :
        LET es == respond(content, opts, cb)
        IN /\ call' = CallRecord("respond", content, <<>>, opts, cb)
           /\ events' = es
           /\ pending' = SelectSeq(es, IsFormatContent)
    /\ UNCHANGED <<context, completed, neg, thrown, delivered, writes>>

\* response.formatContent hands the formatted body to formatCb.
FormatDeliver ==
    /\ pending # <<>>
    /\ LET p == Head(pending)
       IN /\ writes' = writes \o formatCb(p, Formatted(p.key, p.content))
          /\ delivered' = Append(delivered, p)
    /\ pending' = Tail(pending)
    /\ UNCHANGED <<context, completed, neg, call, events, thrown>>

\* The caller's error layer answers an exception with a 5xx response and
\* marks the request completed.
HandleError ==
    /\ thrown # "none"
    /\ ~completed
    /\ completed' = TRUE
    /\ UNCHANGED <<context, neg, call, events, thrown, pending, delivered, writes>>

NextDispatch ==
    \/ RespondTo
    \/ RespondWith
    \/ Respond
    \/ FormatDeliver
    \/ HandleError

SpecDispatch == InitDispatch /\ [][NextDispatch]_vars

----------------------------------------------------------------------------
(* Properties of negotiate, stated on the inputs and the registry *)

Negotiated == neg.outcome # "none"

\* The Accept header is absent, or one of its comma-separated entries has
\* the media type */*.
AcceptsAnything ==
    \/ accept = <<>>
    \/ \E i \in 1..Len(SplitOnComma(accept)) :
          StripParams(SplitOnComma(accept)[i]) = <<Wildcard>>

StrategyKeys(strategies) == [i \in 1..Len(strategies) |-> strategies[i].key]

\* allowedFormats followed by the strategy keys not already present.
MergedList ==
    formats \o SelectSeq(StrategyKeys(neg.strategies),
                         LAMBDA k : ~InSeq(k, formats))

NoHints == neg.frmt = NoFormat /\ params_format = NoFormat

\* C1: with no wildcard entry and a non-empty candidate set, only the first
\* candidate is handed to the Accept matcher: when it has no match the call
\* fails with the 'format not defined' error, whatever the later candidates
\* would match, and Accept 'application/json' with ['html','json'] and no
\* hints fails.
C1_FirstUnmatchedCandidateFails ==
    (Negotiated /\ ~AcceptsAnything /\ neg.types # <<>>) =>
        /\ Len(neg.matcherCalls) = 1
        /\ neg.matcherCalls[1].format = neg.types[1]
        /\ matchAcceptHeaderContentType(neg.accepts, neg.types[1]) = NoContentType
              => (neg.outcome = "error" /\ thrown = "UndefinedFormatError")
        /\ matchAcceptHeaderContentType(neg.accepts, neg.types[1]) # NoContentType
              => (neg.outcome = "ok" /\ neg.format = neg.types[1])
        /\ (/\ accept = <<"application/json">>
            /\ formats = <<"html", "json">>
            /\ NoHints
            /\ neg.strategies = <<>>) => neg.outcome = "error"

C1_Witness ==
    /\ Negotiated
    /\ accept = <<"application/json">>
    /\ formats = <<"html", "json">>
    /\ NoHints
    /\ neg.types = <<"html", "json">>
    /\ matchAcceptHeaderContentType(neg.accepts, "json") = "application/json"
    /\ neg.outcome = "error"

\* C2: when the Accept header is absent or any entry is */*, the result is
\* the first candidate with resolveContentType of it, the Accept matcher is
\* not consulted, and the call fails when that content type does not resolve.
C2_WildcardTakesFirstCandidate ==
    (Negotiated /\ AcceptsAnything /\ neg.types # <<>>) =>
        /\ neg.matcherCalls = <<>>
        /\ IF getContentTypeForFormat(neg.types[1]) # NoContentType
           THEN /\ neg.outcome = "ok"
                /\ neg.format = neg.types[1]
                /\ neg.contentType = getContentTypeForFormat(neg.types[1])
           ELSE neg.outcome = "error" /\ thrown = "UndefinedFormatError"

C2_Witness ==
    /\ Negotiated
    /\ accept = <<"application/json", " ", ",", " ", "*/*">>
    /\ formats = <<"html", "json">>
    /\ NoHints
    /\ neg.strategies = <<>>
    /\ neg.outcome = "ok"
    /\ neg.format = "html"

PlainWildcard == accept = <<>> \/ accept = <<Wildcard>>

\* C3 as written: for non-empty allowedFormats and Accept */* or absent,
\* the format is allowedFormats[0] when it has a resolvable content type.
C3_Original ==
    (/\ Negotiated
     /\ formats # <<>>
     /\ PlainWildcard
     /\ getContentTypeForFormat(formats[1]) # NoContentType)
        => (neg.outcome = "ok" /\ neg.format = formats[1])

\* C3: for non-empty allowedFormats, Accept */* or absent, and neither a
\* requestedFormat nor a paramFormat hint, the format is allowedFormats[0]
\* when it has a resolvable content type.
C3_FirstAllowedWithoutHints ==
    (/\ Negotiated
     /\ formats # <<>>
     /\ PlainWildcard
     /\ NoHints
     /\ getContentTypeForFormat(formats[1]) # NoContentType)
        => (neg.outcome = "ok" /\ neg.format = formats[1])

C3_Witness ==
    /\ Negotiated
    /\ formats = <<"json", "html">>
    /\ accept = <<Wildcard>>
    /\ NoHints
    /\ neg.strategies = << [key |-> "txt", callable |-> FALSE],
                           [key |-> "html", callable |-> TRUE] >>
    /\ neg.format = "json"

\* C4: the candidate set is {requestedFormat} with an explicit hint; else
\* {paramFormat} when it is in the merged list; else empty, and the call
\* fails, when paramFormat is not in the merged list; else the merged list.
C4_CandidateSetByHints ==
    Negotiated =>
        /\ neg.frmt # NoFormat => neg.types = <<neg.frmt>>
        /\ (neg.frmt = NoFormat /\ params_format # NoFormat
              /\ InSeq(params_format, MergedList))
              => neg.types = <<params_format>>
        /\ (neg.frmt = NoFormat /\ params_format # NoFormat
              /\ ~InSeq(params_format, MergedList))
              => /\ neg.types = <<>>
                 /\ neg.outcome = "error"
                 /\ thrown = "UndefinedFormatError"
        /\ NoHints => neg.types = MergedList

C4_Witness ==
    /\ Negotiated
    /\ neg.frmt = NoFormat
    /\ params_format = "zzz"
    /\ formats = <<"html", "json">>
    /\ neg.strategies = << [key |-> "json", callable |-> FALSE],
                           [key |-> "txt", callable |-> TRUE] >>
    /\ neg.types = <<>>
    /\ neg.outcome = "error"

C10_ParametersStrippedForBoth ==
    Negotiated =>
        /\ neg.types # <<>> =>
              (neg.wildcard <=>
                  \E i \in 1..Len(neg.accepts) :
                      StripParams(neg.accepts[i]) = <<Wildcard>>)
        /\ \A c \in 1..Len(neg.matcherCalls) :
              \A i \in 1..Len(neg.matcherCalls[c].accepts) :
                  neg.matcherCalls[c].accepts[i]
                      = StripParams(neg.matcherCalls[c].accepts[i])

----------------------------------------------------------------------------
(* Properties of the dispatch *)

Dispatched == call.op \in {"respondTo", "respondWith"}

HandlerEvents == { i \in 1..Len(events) : events[i].ev \in {"strategy", "respond"} }
NegotiateEvents == { i \in 1..Len(events) : events[i].ev = "negotiate" }
FormatEvents == { i \in 1..Len(events) : events[i].ev = "formatContent" }

\* C6: a dispatch that finds the request completed after the negotiation
\* invokes no strategy handler and no Default Responder, and so causes no
\* formatContent and no writeResponse call.
C6_NoHandlerWhenCompleted ==
    (Dispatched /\ call.completed) =>
        /\ HandlerEvents = {}
        /\ FormatEvents = {}
        /\ pending = <<>>
        /\ delivered = <<>>
        /\ writes = <<>>

C6_Witness ==
    /\ call.op = "respondTo"
    /\ call.completed
    /\ neg.outcome = "ok"
    /\ ~IsFunction(call.strategies, neg.format)
    /\ Len(events) = 2
    /\ events[2].ev = "negotiate"

\* The type the claim C7 expects respondWith to pass on, where it names one.
SuppliedType == "type" \in DOMAIN call.opts

\* C7: respondWith passes on options.type when the caller supplied one,
\* whatever the content is; otherwise the lower-cased type of the first
\* element, no type for an empty array, the lower-cased type of a non-array
\* value; and dispatch is invoked with that options.type.
C7_TypePassedToDispatch ==
    call.op = "respondWith" =>
        /\ Len(events) > 0
        /\ events[1].ev = "respondTo"
        /\ "type" \in DOMAIN events[1].opts
        /\ SuppliedType => events[1].opts.type = call.opts.type
        /\ (~SuppliedType /\ call.content.isArray /\ call.content.items = <<>>)
              => events[1].opts.type = Null
        /\ (~SuppliedType /\ call.content.items # <<>>
              /\ HasType(call.content.items[1]))
              => events[1].opts.type = toLowerCase(call.content.items[1].type)

\* C8: within a dispatch no handler is invoked before negotiate returned;
\* when negotiate fails the error reaches the caller and no handler is
\* invoked; when it succeeds and the request is not completed exactly one
\* handler is invoked once, strategies[format] when it is a function and
\* the Default Responder otherwise, with the content, the callback and the
\* options, in which the negotiated format and contentType replace the
\* caller's.
C8_DispatchProtocol ==
    (Dispatched /\ Negotiated) =>
        /\ \A h \in HandlerEvents : \E n \in NegotiateEvents : n < h
        /\ neg.outcome = "error" =>
              (thrown = "UndefinedFormatError" /\ HandlerEvents = {})
        /\ (neg.outcome = "ok" /\ ~call.completed) =>
              /\ Cardinality(HandlerEvents) = 1
              /\ \A h \in HandlerEvents :
                    /\ events[h].ev =
                          IF \E i \in 1..Len(call.strategies) :
                                /\ call.strategies[i].key = neg.format
                                /\ call.strategies[i].callable
                          THEN "strategy" ELSE "respond"
                    /\ events[h].key = neg.format
                    /\ events[h].content = call.content
                    /\ events[h].cb = call.cb
                    /\ events[h].opts.format = neg.format
                    /\ events[h].opts.contentType = neg.contentType
                    /\ \A k \in DOMAIN events[1].opts \ {"format", "contentType"} :
                          events[h].opts[k] = events[1].opts[k]

C8_Witness ==
    /\ call.op = "respondTo"
    /\ ~call.completed
    /\ "format" \in DOMAIN call.opts
    /\ call.opts.format = "txt"
    /\ neg.outcome = "ok"
    /\ neg.format = "json"
    /\ Len(events) = 3
    /\ events[3].ev = "strategy"
    /\ events[3].opts.format = "json"
    /\ events[3].opts.contentType = "application/json"

\* C9: respond negotiates nothing and calls formatContent once with
\* options.format; writeResponse is called only on a delivery of the
\* formatted body, once for each, with options.statusCode or 200, the
\* headers {Content-Type: options.contentType}, the formatted body and the
\* caller's callback.
C9_DefaultResponder ==
    /\ call.op = "respond" =>
          /\ neg = NotNegotiated
          /\ Len(events) = 1
          /\ events[1].ev = "formatContent"
          /\ events[1].key = Get(call.opts, "format")
          /\ events[1].content = call.content
    /\ Len(writes) = Len(delivered)
    /\ \A i \in 1..Len(writes) :
          /\ i <= Len(delivered)
          /\ writes[i].statusCode =
                IF "statusCode" \in DOMAIN delivered[i].opts
                THEN delivered[i].opts.statusCode ELSE 200
          /\ DOMAIN writes[i].headers = {"Content-Type"}
          /\ writes[i].headers["Content-Type"] = Get(delivered[i].opts, "contentType")
          /\ writes[i].body = Formatted(Get(delivered[i].opts, "format"),
                                        delivered[i].content)
          /\ writes[i].cb = delivered[i].cb
          /\ call.op = "respond" => writes[i].cb = call.cb

C9_Witness ==
    /\ call.op = "respond"
    /\ call.opts = [statusCode |-> 404, format |-> "txt",
                    contentType |-> "text/plain"]
    /\ Len(writes) = 1
    /\ writes[1].statusCode = 404
    /\ writes[1].headers["Content-Type"] = "text/plain"

====
